---- MODULE Spec2Model ----
(***************************************************************************)
(* State-machine model of RF-shield_4relay.ino: a four-relay controller    *)
(* that binds learned RF codes to relays and mirrors codes and relay       *)
(* states in an external I2C EEPROM.                                       *)
(*                                                                         *)
(* `unsigned long' is 32 bits on the target.  The model checker's integers *)
(* are 32-bit signed, so an unsigned long is held as a record of its two   *)
(* 16-bit halves [hi, lo]; sums and differences wrap modulo 2^32 as the    *)
(* C arithmetic does.                                                      *)
(***************************************************************************)
EXTENDS Integers, Sequences, FiniteSets, TLC

(* ------------------------------ bounds -------------------------------- *)
\* RF frames delivered in a run that is an exchange of frames
MaxRx == 5
\* idle periods (time passing with nothing to do) in a run that is mostly waiting
MaxTicks == 2
\* RF frames delivered in a run that is mostly waiting, or has a failing bus
FewRx == 2
\* failed write transactions in a run with a failing bus
MaxWriteFaults == 1
\* failed read transactions in a run that starts with a failing bus
MaxReadFaults == 2

(* ------------------------- program constants -------------------------- *)
NumRelays == 4
debounceTime == 1000
debounceDelay == 50
learningModeTimeout == 300000
LearnPause == 2000
WriteSettle == 20
RelayBase == 16
EEPROM_SIZE == 20
SizeofUnsignedLong == 4

Slots == 0 .. (NumRelays - 1)

(* ----------------------- 32-bit unsigned values ----------------------- *)
\* 2^16: an unsigned long is two halves of 16 bits
Half == 256 * 256

\* the unsigned long with value n, for 0 <= n < 2^31
U32(n) == [hi |-> n \div Half, lo |-> n % Half]

Zero32 == U32(0)

\* a + b modulo 2^32 (b may be a duration with hi = Half: one full wrap)
Add32(a, b) ==
  LET s == a.lo + b.lo
  IN  [hi |-> (a.hi + b.hi + (s \div Half)) % Half, lo |-> s % Half]

\* a - b modulo 2^32, as C's unsigned subtraction
Sub32(a, b) ==
  LET borrow == IF a.lo < b.lo THEN 1 ELSE 0
  IN  [hi |-> (a.hi - b.hi - borrow + 2 * Half) % Half,
       lo |-> (a.lo - b.lo + Half) % Half]

\* a > b on unsigned longs
Gt32(a, b) == a.hi > b.hi \/ (a.hi = b.hi /\ a.lo > b.lo)

\* millis() - since > limit, the elapsed-time test of lines 74, 92 and 154
ElapsedSinceExceeds(now, since, limit) == Gt32(Sub32(now, since), U32(limit))

(* ----------------------------- the EEPROM ----------------------------- *)
Cells == 0 .. (EEPROM_SIZE - 1)

\* Faulty variant: the payload bytes sent LSB first
WordBytesLsbFirst(value) ==
  << value.lo % 256, value.lo \div 256, value.hi % 256, value.hi \div 256 >>

\* the four payload bytes of writeEEPROM(int, unsigned long), MSB first
WordBytes(value) ==
  << value.hi \div 256, value.hi % 256, value.lo \div 256, value.lo % 256 >>

\* the cells after a successful word write at address
StoreWord(mem, address, value) ==
  [a \in Cells |->
     IF a >= address /\ a < address + 4
       THEN WordBytes(value)[a - address + 1]
       ELSE mem[a]]

\* the cells after a successful byte write of a bool at address
StoreBool(mem, address, value) ==
  [mem EXCEPT ![address] = IF value THEN 1 ELSE 0]

\* Faulty variant: the four bytes assembled LSB first
FetchWordReversed(mem, address) ==
  [hi |-> mem[address + 3] * 256 + mem[address + 2],
   lo |-> mem[address + 1] * 256 + mem[address]]

\* the word readEEPROM assembles from four bytes, MSB first
FetchWord(mem, address) ==
  [hi |-> mem[address] * 256 + mem[address + 1],
   lo |-> mem[address + 2] * 256 + mem[address + 3]]

\* outcome of a read transaction: acknowledged, address not acknowledged,
\* or fewer bytes returned than requested
ReadOutcomes == {"ok", "nack", "short"}

\* Faulty variant: the bytes of a short response are assembled all the same
readEEPROMIgnoresShort(mem, address, outcome) ==
  IF outcome = "nack" THEN Zero32 ELSE FetchWord(mem, address)

\* readEEPROM(address) under a bus outcome
readEEPROM(mem, address, outcome) ==
  IF outcome = "ok" THEN FetchWord(mem, address) ELSE Zero32

\* Faulty variant: the byte of a short response is taken all the same
readEEPROMByteIgnoresShort(mem, address, outcome) ==
  IF outcome = "nack" THEN 0 ELSE mem[address]

\* readEEPROMByte(address) under a bus outcome
readEEPROMByte(mem, address, outcome) ==
  IF outcome = "ok" THEN mem[address] ELSE 0

\* lines 170-174 and 183-187: the cells after a write transaction; a failed
\* one ("I2C write failed!") leaves them as they were
WriteResult(mem, written, ok) == IF ok THEN written ELSE mem

\* Faulty variant: the settle delay is taken before the transaction's result is tested
AfterWriteAlwaysSettles(now, ok) == Add32(now, U32(WriteSettle))

\* lines 170-174 and 183-187: millis() on return from writeEEPROM; the settle
\* delay is taken only after a successful transaction
AfterWrite(now, ok) == IF ok THEN Add32(now, U32(WriteSettle)) ELSE now

\* Faulty variant: the slot index used as the address, unscaled
CodeAddrUnscaled(slot) == slot

\* address of slot's code: slot * sizeof(unsigned long)
CodeAddr(slot) == slot * SizeofUnsignedLong

\* Faulty variant: the relay byte addressed without its base
RelayAddrUnbased(slot) == slot

\* address of slot's relay byte
RelayAddr(slot) == RelayBase + slot

(* ------------------------------ inputs -------------------------------- *)
\* codes the receiver can deliver; 0 is "unknown encoding"
CodeA == U32(5393)
CodeB == U32(5396)
CodeC == [hi |-> 21, lo |-> 4353]
CodeD == [hi |-> Half - 1, lo |-> Half - 1]
RFCodes == {Zero32, CodeA, CodeB, CodeC, CodeD}

\* the cells of an EEPROM holding the given four codes and four relay bytes
Image(codes, relays) ==
  [a \in Cells |->
     IF a < RelayBase
       THEN WordBytes(codes[(a \div 4) + 1])[(a % 4) + 1]
       ELSE relays[a - RelayBase + 1]]

\* EEPROM contents the device may be powered up with: erased (all 0xFF),
\* four paired remotes, and a store with a repeated code and a zero word
InitStores ==
  { Image(<<CodeD, CodeD, CodeD, CodeD>>, <<255, 255, 255, 255>>),
    Image(<<CodeA, CodeB, CodeC, CodeD>>, <<1, 0, 1, 0>>),
    Image(<<CodeA, CodeA, CodeB, Zero32>>, <<0, 1, 0, 2>>) }

\* lengths of the idle periods the environment lets pass: half the quiet
\* interval, just over it, just over the learning timeout, one full period
\* of the 32-bit millisecond counter, and what is left of a session's 300 s
\* after three captures with their pauses
HalfQuiet == U32(debounceTime \div 2)
FullWrap == [hi |-> Half, lo |-> 0]
SessionRest == U32(learningModeTimeout - (NumRelays - 1) * (LearnPause + WriteSettle))
LoopTickSteps == {HalfQuiet, U32(debounceTime + 1), FullWrap}
LearnTickSteps == {HalfQuiet, SessionRest, U32(learningModeTimeout + 1)}

\* what the environment does in one run: frames, idle periods and bus
\* failures still to come, and whether a bus transaction has failed so far
Environments ==
  { [rx |-> MaxRx, ticks |-> 1, readFaults |-> 0, writeFaults |-> 0, failed |-> FALSE],
    [rx |-> FewRx, ticks |-> MaxTicks, readFaults |-> 0, writeFaults |-> MaxWriteFaults,
      failed |-> FALSE],
    [rx |-> 1, ticks |-> 1, readFaults |-> MaxReadFaults, writeFaults |-> 0, failed |-> FALSE],
    [rx |-> 1, ticks |-> MaxTicks + 1, readFaults |-> 0, writeFaults |-> 0, failed |-> FALSE],
    [rx |-> MaxRx - 1, ticks |-> MaxTicks, readFaults |-> 0, writeFaults |-> 0, failed |-> FALSE] }

(* ------------------------------- state -------------------------------- *)
VARIABLES
  pc,                    \* position in setup()/loop()/handleRFInput()/enterLearningMode()
  millis,                \* the value millis() returns
  eeprom,                \* cells of the external EEPROM
  pinLevel,              \* level driven on relayPins[i]
  relayStates,
  buttonCodes,
  learningMode,
  learnStep,
  lastReceivedTime,
  lastReceivedCode,
  lastDebounceTime,
  learningModeStartTime,
  rxAvailable,           \* mySwitch.available()
  rxValue,               \* mySwitch.getReceivedValue()
  value,                 \* handleRFInput's local
  idx,                   \* the loop variable i of setup() and handleRFInput()
  serial,                \* lines printed by the latest step
  env,                   \* environment events still to come
  readLog,               \* history: outcome of each read of setup()
  quietFor,              \* history: ms since lastReceivedTime was set, capped
  sess                   \* history: the latest learning session

vars == << pc, millis, eeprom, pinLevel, relayStates, buttonCodes, learningMode,
           learnStep, lastReceivedTime, lastReceivedCode, lastDebounceTime,
           learningModeStartTime, rxAvailable, rxValue, value, idx, serial,
           env, readLog, quietFor, sess >>

progVars == << pc, eeprom, pinLevel, relayStates, buttonCodes, learningMode,
               learnStep, lastReceivedTime, lastReceivedCode, lastDebounceTime,
               learningModeStartTime, value, idx >>

QuietCap == debounceTime + 1

\* the capped count of elapsed ms after a further d
Elapse(count, d) ==
  IF d.hi > 0 \/ count + d.lo > QuietCap THEN QuietCap ELSE count + d.lo

NoSession ==
  [state |-> "none", presented |-> << >>, accepted |-> << >>, failed |-> {},
   pending |-> FALSE, button |-> FALSE, entryCodes |-> << >>, entryStore |-> << >>,
   entryLastCode |-> Zero32, entryLastTime |-> Zero32,
   complete |-> FALSE, timedOut |-> FALSE]

Init ==
  /\ pc = "setup"
  /\ millis = Zero32
  /\ eeprom \in InitStores
  /\ pinLevel = [i \in Slots |-> FALSE]
  /\ relayStates = [i \in Slots |-> FALSE]
  /\ buttonCodes = [i \in Slots |-> Zero32]
  /\ learningMode = FALSE
  /\ learnStep = 0
  /\ lastReceivedTime = Zero32
  /\ lastReceivedCode = Zero32
  /\ lastDebounceTime = Zero32
  /\ learningModeStartTime = Zero32
  /\ rxAvailable = FALSE
  /\ rxValue = Zero32
  /\ value = Zero32
  /\ idx = 0
  /\ serial = {}
  /\ env \in Environments
  /\ readLog = [i \in Slots |-> [code |-> "none", relay |-> "none"]]
  /\ quietFor = QuietCap
  /\ sess = NoSession

(* ------------------------------ setup() ------------------------------- *)
\* number of failed transactions among the outcomes
Failures(outcomes) == Cardinality({k \in DOMAIN outcomes : outcomes[k] # "ok"})

\* lines 49-52, one pass of the load loop: slot idx is read from the EEPROM
SetupLoad ==
  /\ pc = "setup"
  /\ \E oc \in ReadOutcomes, ob \in ReadOutcomes :
       /\ Failures(<<oc, ob>>) <= env.readFaults
       /\ env' = [env EXCEPT !.readFaults = @ - Failures(<<oc, ob>>),
                              !.failed = @ \/ Failures(<<oc, ob>>) > 0]
       /\ buttonCodes' =
            [buttonCodes EXCEPT ![idx] = readEEPROM(eeprom, CodeAddr(idx), oc)]
       /\ relayStates' =
            [relayStates EXCEPT ![idx] = (readEEPROMByte(eeprom, RelayAddr(idx), ob) # 0)]
       /\ readLog' = [readLog EXCEPT ![idx] = [code |-> oc, relay |-> ob]]
       /\ serial' = IF "nack" \in {oc, ob} THEN {"I2C read failed!"} ELSE {}
  /\ IF idx + 1 < NumRelays
       THEN idx' = idx + 1 /\ pc' = "setup"
       ELSE idx' = 0 /\ pc' = "restore"
  /\ UNCHANGED << millis, eeprom, pinLevel, learningMode, learnStep, lastReceivedTime,
                  lastReceivedCode, lastDebounceTime, learningModeStartTime,
                  rxAvailable, rxValue, value, quietFor, sess >>

\* lines 55-69: the outputs take the loaded states, the receiver is enabled
SetupRestore ==
  /\ pc = "restore"
  /\ pinLevel' = [i \in Slots |-> relayStates[i]]
  /\ serial' = {"Setup complete"}
  /\ pc' = "loop"
  /\ UNCHANGED << millis, eeprom, relayStates, buttonCodes, learningMode, learnStep,
                  lastReceivedTime, lastReceivedCode, lastDebounceTime,
                  learningModeStartTime, rxAvailable, rxValue, value, idx,
                  env, readLog, quietFor, sess >>

(* --------------------------- handleRFInput() -------------------------- *)
\* Faulty variant: the filter without the cooldown: a repeat is never accepted
RunAcceptsNoCooldown(v, lastCode, now, lastTime) == v # lastCode

\* Faulty variant: the two tests of the filter joined by "and"
RunAcceptsBothTests(v, lastCode, now, lastTime) ==
  v # lastCode /\ ElapsedSinceExceeds(now, lastTime, debounceTime)

\* line 92: the run-time filter
RunAccepts(v, lastCode, now, lastTime) ==
  v # lastCode \/ ElapsedSinceExceeds(now, lastTime, debounceTime)

\* Faulty variant: the scan runs from the top slot down
LastMatch(codes, v) ==
  IF \E i \in Slots : codes[i] = v
    THEN CHOOSE i \in Slots : codes[i] = v /\ \A j \in Slots : codes[j] = v => i >= j
    ELSE NumRelays

\* lines 96-97: the value of i at which the scan stops (NumRelays: no match)
FirstMatch(codes, v) ==
  IF \E i \in Slots : codes[i] = v
    THEN CHOOSE i \in Slots : codes[i] = v /\ \A j \in Slots : codes[j] = v => i <= j
    ELSE NumRelays

\* lines 80-98 and 110-114: the receiver is polled.  A zero or repeated value
\* is dropped; an accepted value with no slot is only recorded; an accepted
\* value with a slot flips that slot's state (line 98) and goes on to line 99
handleRFInput ==
  /\ IF learningMode \/ ~rxAvailable
       THEN /\ pc' = "loop"
            /\ serial' = {}
            /\ UNCHANGED << relayStates, lastReceivedCode, lastReceivedTime,
                            rxAvailable, value, idx, quietFor >>
       ELSE /\ value' = rxValue
            /\ IF rxValue = Zero32
                 THEN /\ serial' = {"Unknown encoding"}
                      /\ rxAvailable' = FALSE
                      /\ pc' = "loop"
                      /\ UNCHANGED << relayStates, lastReceivedCode,
                                      lastReceivedTime, idx, quietFor >>
                 ELSE IF RunAccepts(rxValue, lastReceivedCode, millis, lastReceivedTime)
                   THEN LET i == FirstMatch(buttonCodes, rxValue)
                        IN  IF i < NumRelays
                              THEN /\ relayStates' =
                                        [relayStates EXCEPT ![i] = ~relayStates[i]]
                                   /\ idx' = i
                                   /\ serial' = {"Received"}
                                   /\ pc' = "drive"
                                   /\ UNCHANGED << lastReceivedCode, lastReceivedTime,
                                                   rxAvailable, quietFor >>
                              ELSE /\ lastReceivedCode' = rxValue
                                   /\ lastReceivedTime' = millis
                                   /\ quietFor' = 0
                                   /\ rxAvailable' = FALSE
                                   /\ serial' = {"Received"}
                                   /\ pc' = "loop"
                                   /\ UNCHANGED << relayStates, idx >>
                   ELSE /\ rxAvailable' = FALSE
                        /\ serial' = {}
                        /\ pc' = "loop"
                        /\ UNCHANGED << relayStates, lastReceivedCode,
                                        lastReceivedTime, idx, quietFor >>
  /\ UNCHANGED << millis, eeprom, pinLevel, buttonCodes, rxValue, env, readLog >>

\* line 99: the output takes the flipped state
DriveRelay ==
  /\ pc = "drive"
  /\ pinLevel' = [pinLevel EXCEPT ![idx] = relayStates[idx]]
  /\ serial' = {"Relay toggled"}
  /\ pc' = "persist"
  /\ UNCHANGED << millis, eeprom, relayStates, buttonCodes, learningMode, learnStep,
                  lastReceivedTime, lastReceivedCode, lastDebounceTime,
                  learningModeStartTime, rxAvailable, rxValue, value, idx,
                  env, readLog, quietFor, sess >>

\* Faulty variant: the state from before the toggle is persisted
PersistedRelayStale(states, i) == ~states[i]

\* the bool handed to writeEEPROM at line 105
PersistedRelayValue(states, i) == states[i]

\* lines 105-114 and 178-188: the relay byte is written (a failed transaction
\* returns before the settle delay); then the acceptance is recorded and the
\* receiver reset
PersistRelay ==
  /\ pc = "persist"
  /\ \E ok \in BOOLEAN :
       /\ ok \/ env.writeFaults > 0
       /\ env' = IF ok THEN env
                       ELSE [env EXCEPT !.writeFaults = @ - 1, !.failed = TRUE]
       /\ eeprom' = WriteResult(eeprom,
                                 StoreBool(eeprom, RelayAddr(idx),
                                           PersistedRelayValue(relayStates, idx)),
                                 ok)
       /\ millis' = AfterWrite(millis, ok)
       /\ lastReceivedTime' = millis'
       /\ serial' = IF ok THEN {} ELSE {"I2C write failed!"}
  /\ lastReceivedCode' = value
  /\ quietFor' = 0
  /\ rxAvailable' = FALSE
  /\ pc' = "loop"
  /\ UNCHANGED << pinLevel, relayStates, buttonCodes, learningMode, learnStep,
                  lastDebounceTime, learningModeStartTime, rxValue, value, idx,
                  readLog, sess >>

(* ------------------------------- loop() ------------------------------- *)
\* Faulty variant: the button test without the debounce delay
ButtonQualifiesNoDebounce(pressed, now, lastDebounce) == pressed

\* line 74: the learn button reads LOW and the debounce delay has passed
ButtonQualifies(pressed, now, lastDebounce) ==
  pressed /\ ElapsedSinceExceeds(now, lastDebounce, debounceDelay)

\* lines 72-82 and 119-123: one pass of loop().  A qualifying press enters
\* learning mode; otherwise handleRFInput runs
LoopPass ==
  /\ pc = "loop"
  /\ \E pressed \in BOOLEAN :
       IF ButtonQualifies(pressed, millis, lastDebounceTime)
         THEN /\ learningMode' = TRUE
              /\ learnStep' = 0
              /\ learningModeStartTime' = millis
              /\ serial' = {"LEARNING MODE"}
              /\ pc' = "learn"
              /\ sess' = [state |-> "active", presented |-> << >>,
                          accepted |-> << >>, failed |-> {},
                          pending |-> rxAvailable, button |-> pressed,
                          entryCodes |-> buttonCodes, entryStore |-> eeprom,
                          entryLastCode |-> lastReceivedCode,
                          entryLastTime |-> lastReceivedTime,
                          complete |-> FALSE, timedOut |-> FALSE]
              /\ UNCHANGED << millis, eeprom, pinLevel, relayStates, buttonCodes,
                              lastReceivedTime, lastReceivedCode, rxAvailable,
                              rxValue, value, idx, env, readLog, quietFor >>
         ELSE /\ handleRFInput
              /\ UNCHANGED << learningMode, learnStep, learningModeStartTime, sess >>
  /\ UNCHANGED lastDebounceTime

\* lines 80-82 on return from enterLearningMode
Dispatch ==
  /\ pc = "dispatch"
  /\ handleRFInput
  /\ UNCHANGED << learningMode, learnStep, learningModeStartTime, lastDebounceTime,
                  sess >>

(* ------------------------- enterLearningMode() ------------------------ *)
\* Faulty variant: the capture filter without the test for 0
LearnAcceptsZero(v, lastCode) == v # lastCode

\* Faulty variant: the capture filter without the test for a repeat
LearnAcceptsRepeat(v, lastCode) == v # Zero32

\* line 129: the capture filter
LearnAccepts(v, lastCode) == v # Zero32 /\ v # lastCode

\* Faulty variant: the completion test is off by one
StepsToLearnOffByOne == NumRelays + 1

\* line 139: the session is complete once learnStep has reached this
StepsToLearn == NumRelays

\* Faulty variant: an accepted code restarts the session clock
SessionClockRestarts(start, now, accepted) == IF accepted THEN now ELSE start

\* learningModeStartTime after a pass of the capture loop: line 122 is its
\* only assignment, no pass changes it
SessionClock(start, now, accepted) == start

\* lines 125-158 and 76: one pass of the capture loop.  An accepted value is
\* stored in slot learnStep and written to the EEPROM (a failed transaction
\* skips the settle delay), the step advances and, unless it was the last,
\* the loop pauses; then the timeout is tested.  When learningMode has become
\* false the loop ends and loop() stamps lastDebounceTime.
LearnIteration ==
  /\ pc = "learn"
  /\ LET takes == rxAvailable /\ LearnAccepts(rxValue, lastReceivedCode)
     IN  \E ok \in BOOLEAN :
           /\ ok \/ (takes /\ env.writeFaults > 0)
           /\ LET step1    == IF takes THEN learnStep + 1 ELSE learnStep
                  complete == takes /\ step1 >= StepsToLearn
                  t1       == IF takes THEN AfterWrite(millis, ok) ELSE millis
                  t2       == IF takes /\ ~complete
                                THEN Add32(t1, U32(LearnPause)) ELSE t1
                  q1       == IF t1 # millis THEN Elapse(quietFor, U32(WriteSettle))
                                            ELSE quietFor
                  q2       == IF takes /\ ~complete
                                THEN Elapse(q1, U32(LearnPause)) ELSE q1
                  timedOut == ElapsedSinceExceeds(
                                t2, SessionClock(learningModeStartTime, t2, takes),
                                learningModeTimeout)
                  leaves   == complete \/ timedOut
              IN  /\ buttonCodes' = IF takes
                                      THEN [buttonCodes EXCEPT ![learnStep] = rxValue]
                                      ELSE buttonCodes
                  /\ eeprom' = IF takes
                                 THEN WriteResult(eeprom,
                                        StoreWord(eeprom, CodeAddr(learnStep), rxValue),
                                        ok)
                                 ELSE eeprom
                  /\ env' = IF takes /\ ~ok
                              THEN [env EXCEPT !.writeFaults = @ - 1, !.failed = TRUE]
                              ELSE env
                  /\ learnStep' = step1
                  /\ lastReceivedCode' = IF takes THEN rxValue ELSE lastReceivedCode
                  /\ rxAvailable' = IF takes THEN FALSE ELSE rxAvailable
                  /\ millis' = t2
                  /\ quietFor' = q2
                  /\ learningModeStartTime' =
                       SessionClock(learningModeStartTime, t2, takes)
                  /\ learningMode' = ~leaves
                  /\ lastDebounceTime' = IF leaves THEN t2 ELSE lastDebounceTime
                  /\ pc' = IF leaves THEN "dispatch" ELSE "learn"
                  /\ serial' = (IF takes /\ ~ok THEN {"I2C write failed!"} ELSE {})
                                 \cup (IF takes THEN {"Saved code"} ELSE {})
                                 \cup (IF complete THEN {"Learning mode complete!"} ELSE {})
                                 \cup (IF timedOut
                                         THEN {"Learning mode timeout. Exiting..."}
                                         ELSE {})
                  /\ sess' = [sess EXCEPT
                       !.accepted = IF takes THEN Append(@, rxValue) ELSE @,
                       !.failed   = IF takes /\ ~ok THEN @ \cup {learnStep} ELSE @,
                       !.complete = complete,
                       !.timedOut = timedOut,
                       !.state    = IF leaves THEN "done" ELSE "active"]
  /\ UNCHANGED << pinLevel, relayStates, lastReceivedTime,
                  rxValue, value, idx, readLog >>

(* ---------------------------- environment ----------------------------- *)
\* the program is at a poll point and its next poll would find nothing to do
Idle ==
  \/ pc = "loop" /\ ~rxAvailable
  \/ pc = "learn" /\ ~(rxAvailable /\ LearnAccepts(rxValue, lastReceivedCode))

\* the receiver's interrupt handler decodes a frame; the capture loop tests
\* its timeout on every pass, so it has ended a session that is past its
\* timeout before another frame arrives
Receive ==
  /\ Idle
  /\ env.rx > 0
  /\ pc = "learn"
       => ~ElapsedSinceExceeds(millis, learningModeStartTime, learningModeTimeout)
  /\ \E v \in RFCodes :
       /\ rxValue' = v
       /\ rxAvailable' = TRUE
       /\ sess' = IF pc = "learn"
                    THEN [sess EXCEPT !.presented = Append(@, v)]
                    ELSE sess
  /\ env' = [env EXCEPT !.rx = @ - 1]
  /\ serial' = {}
  /\ UNCHANGED << progVars, millis, readLog, quietFor >>

\* time passes while the program polls and finds nothing to do; the capture
\* loop tests its timeout on every pass, so no full period of the counter
\* passes unobserved there
Tick ==
  /\ Idle
  /\ env.ticks > 0
  /\ \E d \in (IF pc = "learn" THEN LearnTickSteps ELSE LoopTickSteps) :
       /\ millis' = Add32(millis, d)
       /\ quietFor' = Elapse(quietFor, d)
  /\ env' = [env EXCEPT !.ticks = @ - 1]
  /\ serial' = {}
  /\ UNCHANGED << progVars, rxAvailable, rxValue, readLog, sess >>

Next ==
  \/ SetupLoad
  \/ SetupRestore
  \/ LoopPass
  \/ Dispatch
  \/ DriveRelay
  \/ PersistRelay
  \/ LearnIteration
  \/ Receive
  \/ Tick

Spec == Init /\ [][Next]_vars

\* time goes on while the capture loop polls: the timeout comes within reach
LearnTimePasses ==
  /\ pc = "learn"
  /\ Idle
  /\ ~ElapsedSinceExceeds(millis, learningModeStartTime, learningModeTimeout)
  /\ millis' = Add32(millis, U32(learningModeTimeout + 1))
  /\ quietFor' = Elapse(quietFor, U32(learningModeTimeout + 1))
  /\ serial' = {}
  /\ UNCHANGED << progVars, rxAvailable, rxValue, env, readLog, sess >>

NextLive ==
  \/ Next
  \/ LearnTimePasses

\* the runs in which sessions are followed to their end: few frames, no
\* failed read
InitLive ==
  /\ Init
  /\ env.rx <= FewRx
  /\ env.readFaults = 0

\* the capture loop keeps running and time keeps advancing
LiveSpec ==
  /\ InitLive
  /\ [][NextLive]_vars
  /\ WF_vars(LearnIteration)
  /\ WF_vars(LearnTimePasses)

(* ============================== claims ================================ *)
\* a step in which handleRFInput deals with a received value
HandlesFrame == pc \in {"loop", "dispatch"} /\ rxAvailable /\ pc' # "learn"

\* the slot the handled value is bound to, NumRelays when none
BoundSlot == FirstMatch(buttonCodes, rxValue)

\* the handled value repeats the last accepted one within the quiet interval
\* (real time): no relay changes
QuietRepeatIgnored ==
  (HandlesFrame /\ rxValue # Zero32 /\ rxValue = lastReceivedCode
     /\ quietFor <= debounceTime)
    => (relayStates' = relayStates /\ pc' = "loop")

RelayByte(mem, i) == mem[16 + i]
CodeWord(mem, i) ==
  [hi |-> mem[4 * i] * 256 + mem[4 * i + 1],
   lo |-> mem[4 * i + 2] * 256 + mem[4 * i + 3]]

\* C2: zero-rejection.  A received 0 is dropped by handleRFInput and by the
\* capture loop: no scan (the program returns to its poll point with the loop
\* variable untouched), no relay state or output change, no registry or store
\* change, and the last-accepted code and time and the slot index stay.
C2_ZeroRejected ==
  [][ (rxAvailable /\ rxValue = Zero32 /\ (HandlesFrame \/ pc = "learn"))
        => /\ UNCHANGED << relayStates, pinLevel, buttonCodes, eeprom,
                           lastReceivedCode, lastReceivedTime, learnStep, idx >>
           /\ pc' \in {"loop", "learn", "dispatch"} ]_vars

\* C2 witness: a 0 presented during a learning session was left pending and
\* has now been dropped by handleRFInput as well
C2_Witness ==
  /\ serial = {"Unknown encoding"}
  /\ sess.state = "done"
  /\ sess.presented # << >>
  /\ sess.presented[Len(sess.presented)] = Zero32

\* four pairwise distinct non-zero codes
FourDistinct(codes) ==
  /\ Len(codes) = NumRelays
  /\ \A k \in 1 .. Len(codes) : codes[k] # Zero32
  /\ \A k, m \in 1 .. Len(codes) : k # m => codes[k] # codes[m]

\* the capture loop has dealt with everything presented so far
CaptureSettled ==
  sess.state = "active" => ~(rxAvailable /\ LearnAccepts(rxValue, lastReceivedCode))

\* C3 (as claimed): session determinism.  Once four pairwise distinct
\* non-zero codes have been presented to a session (nothing pending at entry,
\* no bus failure) and the loop has dealt with them, the session is Complete
\* with slot i holding the i-th code in memory and in the store.
C3_AsClaimed ==
  (sess.state # "none" /\ ~sess.pending /\ sess.failed = {}
     /\ FourDistinct(sess.presented) /\ CaptureSettled)
    => /\ sess.state = "done"
       /\ sess.complete
       /\ \A i \in Slots : /\ buttonCodes[i] = sess.presented[i + 1]
                           /\ CodeWord(eeprom, i) = sess.presented[i + 1]

\* slots below k hold the accepted codes in order, the others what they held
\* at session entry
MemoryAfterPartial(k) ==
  \A i \in Slots :
    buttonCodes[i] = IF i < k THEN sess.accepted[i + 1] ELSE sess.entryCodes[i]

\* C4 (as claimed): partial session on timeout.  After a session that timed
\* out with k < 4 codes accepted, slots 0..k-1 hold the accepted codes in
\* order and the others their values at entry, in memory and in the store.
C4_AsClaimed ==
  (sess.state = "done" /\ sess.timedOut /\ Len(sess.accepted) < NumRelays)
    => LET k == Len(sess.accepted)
       IN  /\ MemoryAfterPartial(k)
           /\ \A i \in Slots :
                CodeWord(eeprom, i) =
                  IF i < k THEN sess.accepted[i + 1] ELSE CodeWord(sess.entryStore, i)

\* C4 (amended): as claimed in memory; in the store, a slot below k holds its
\* accepted code when its write transaction succeeded, and every other code
\* slot (not reached, or written with a failed transaction) holds what it
\* held at session entry.
C4_PartialSession ==
  (sess.state = "done" /\ sess.timedOut /\ Len(sess.accepted) < NumRelays)
    => LET k == Len(sess.accepted)
       IN  /\ MemoryAfterPartial(k)
           /\ \A i \in Slots :
                CodeWord(eeprom, i) =
                  IF i < k /\ i \notin sess.failed
                    THEN sess.accepted[i + 1]
                    ELSE CodeWord(sess.entryStore, i)

\* C4 witness: a session timed out after two codes, one of them new to its slot
C4_Witness ==
  /\ sess.state = "done"
  /\ sess.timedOut
  /\ Len(sess.accepted) = 2
  /\ sess.failed = {}
  /\ buttonCodes[0] # sess.entryCodes[0]
  /\ CodeWord(eeprom, 0) = sess.accepted[1]
  /\ CodeWord(eeprom, 3) = CodeWord(sess.entryStore, 3)

\* the value pending in the capture loop repeats the presentation before it
PendingRepeatsPrevious ==
  LET n == Len(sess.presented)
  IN  /\ pc = "learn"
      /\ rxAvailable
      /\ n >= 2
      /\ sess.presented[n] = sess.presented[n - 1]
      /\ sess.presented[n] # Zero32
      /\ rxValue = sess.presented[n]

\* C5: capture dedup.  Of two consecutive presentations of the same non-zero
\* code in a session the second is never accepted: it changes neither the
\* registry nor the store, and learnStep does not advance.
C5_CaptureDedup ==
  [][ PendingRepeatsPrevious
        => UNCHANGED << buttonCodes, eeprom, learnStep >> ]_vars

\* C5 witness: a code was accepted into slot 0 and its repeat is pending
C5_Witness ==
  /\ PendingRepeatsPrevious
  /\ sess.accepted = << rxValue >>
  /\ learnStep = 1
  /\ buttonCodes[0] = rxValue

\* slot i's in-memory state, output or relay byte changes in this step
RelayTouched(i) ==
  \/ relayStates'[i] # relayStates[i]
  \/ pinLevel'[i] # pinLevel[i]
  \/ RelayByte(eeprom', i) # RelayByte(eeprom, i)

\* the lowest-indexed slot holding code v, if any
IsLowestHolding(i, v) ==
  /\ buttonCodes[i] = v
  /\ \A j \in Slots : j < i => buttonCodes[j] # v

\* C6: lookup precedence and single toggle.  While handleRFInput deals with a
\* received code, the only slot whose state, output or relay byte changes is
\* the lowest-indexed slot holding that code, and a toggle flips the state of
\* that slot alone.
C6_LookupPrecedence ==
  [][ /\ (HandlesFrame \/ pc \in {"drive", "persist"})
           => \A i \in Slots : RelayTouched(i) => IsLowestHolding(i, rxValue)
      /\ (HandlesFrame /\ pc' = "drive")
           => \E i \in Slots :
                /\ IsLowestHolding(i, rxValue)
                /\ relayStates' = [relayStates EXCEPT ![i] = ~relayStates[i]] ]_vars

\* C6 witness: a relay is being toggled by a code that a higher slot holds too
C6_Witness ==
  /\ pc = "persist"
  /\ \E j \in Slots : j > idx /\ buttonCodes[j] = value /\ buttonCodes[idx] = value

\* C7: learning exclusivity.  While learningMode is true no relay state, no
\* output and no persisted relay byte changes, and handleRFInput is not
\* running.
C7_LearningExclusive ==
  [][ /\ learningMode => \A i \in Slots : ~RelayTouched(i)
      /\ (HandlesFrame \/ pc \in {"drive", "persist"}) => ~learningMode ]_vars

\* C7 witness: while learning, a code bound to a relay at entry was accepted
C7_Witness ==
  /\ learningMode
  /\ \E k \in 1 .. Len(sess.accepted), i \in Slots :
       sess.accepted[k] = sess.entryCodes[i]

\* the byte a relay level is persisted as
LevelByte(level) == IF level THEN 1 ELSE 0

\* C8: toggle update order.  The state is flipped first (the output still
\* differs from it and the store is untouched), then the output is driven,
\* and only then the write is issued: a relay byte only ever changes to the
\* level its output already has, so the store is never ahead of the output,
\* and after a successful write it equals the output level.
C8_ToggleOrder ==
  [][ /\ pc = "drive" => (relayStates[idx] # pinLevel[idx] /\ eeprom' = eeprom)
      /\ pc = "persist" => pinLevel[idx] = relayStates[idx]
      /\ (pc = "persist" /\ "I2C write failed!" \notin serial')
           => RelayByte(eeprom', idx) = LevelByte(pinLevel'[idx])
      /\ \A i \in Slots :
           RelayByte(eeprom', i) # RelayByte(eeprom, i)
             => (pc = "persist" /\ i = idx
                   /\ RelayByte(eeprom', i) = LevelByte(pinLevel[i])) ]_vars

\* C8 witness: the output has been driven and the store is one toggle behind
C8_Witness ==
  /\ pc = "persist"
  /\ pinLevel[idx]
  /\ RelayByte(eeprom, idx) = 0

\* setup() has just completed
SetupDone == serial = {"Setup complete"}

\* C9 (as claimed): startup restore.  When setup completes, for every slot
\* the relay state and the output are on exactly when the persisted byte is
\* non-zero, and the in-memory code is the persisted big-endian word.
C9_AsClaimed ==
  SetupDone
    => \A i \in Slots :
         /\ relayStates[i] = (RelayByte(eeprom, i) # 0)
         /\ pinLevel[i] = (RelayByte(eeprom, i) # 0)
         /\ buttonCodes[i] = CodeWord(eeprom, i)

\* C9 (amended): when setup completes, for every slot the output equals the
\* relay state; the relay is on exactly when its byte was read successfully
\* and is non-zero; the code is the persisted big-endian word when it was
\* read successfully and 0 otherwise.
C9_StartupRestore ==
  SetupDone
    => \A i \in Slots :
         /\ pinLevel[i] = relayStates[i]
         /\ relayStates[i] = (readLog[i].relay = "ok" /\ RelayByte(eeprom, i) # 0)
         /\ buttonCodes[i] = IF readLog[i].code = "ok"
                               THEN CodeWord(eeprom, i) ELSE Zero32

\* C9 witness: the store [1,0,1,0] has been restored to the outputs
C9_Witness ==
  /\ SetupDone
  /\ \A i \in Slots : readLog[i] = [code |-> "ok", relay |-> "ok"]
  /\ << RelayByte(eeprom, 0), RelayByte(eeprom, 1),
        RelayByte(eeprom, 2), RelayByte(eeprom, 3) >> = << 1, 0, 1, 0 >>
  /\ pinLevel = [i \in Slots |-> i \in {0, 2}]
  /\ buttonCodes[0] = CodeA

\* a write transaction fails in this step
WriteFails == "I2C write failed!" \in serial'

\* C10: write bus-failure degradation.  When the write of a relay toggle
\* fails, the store is unchanged, no settle delay is taken, state and output
\* keep the new value, and the handler finishes as after a successful write.
\* When the write of a learned code fails, the store is unchanged, no settle
\* delay is taken (only the capture pause, when the session goes on), the
\* code is kept in memory, the slot index advances and the session goes on or
\* ends as after a successful write.  The failed write is not issued again.
C10_WriteFailure ==
  [][ WriteFails
        => /\ eeprom' = eeprom
           /\ env'.writeFaults = env.writeFaults - 1
           /\ pc = "persist"
                => /\ millis' = millis
                   /\ relayStates' = relayStates
                   /\ pinLevel' = pinLevel
                   /\ pinLevel[idx] = relayStates[idx]
                   /\ lastReceivedCode' = value
                   /\ ~rxAvailable'
                   /\ pc' = "loop"
           /\ pc = "learn"
                => /\ buttonCodes' = [buttonCodes EXCEPT ![learnStep] = rxValue]
                   /\ learnStep' = learnStep + 1
                   /\ lastReceivedCode' = rxValue
                   /\ ~rxAvailable'
                   /\ IF learnStep + 1 < NumRelays
                        THEN /\ millis' = Add32(millis, U32(LearnPause))
                             /\ sess'.timedOut \/ (pc' = "learn" /\ learningMode')
                        ELSE /\ millis' = millis
                             /\ pc' = "dispatch" /\ ~learningMode'
           /\ pc \in {"persist", "learn"} ]_vars

\* C10 witness: a learned code whose write failed is held in memory only and
\* the session has moved on to the next slot
C10_Witness ==
  /\ "I2C write failed!" \in serial
  /\ pc = "learn"
  /\ learnStep = 1
  /\ sess.failed = {0}
  /\ buttonCodes[0] # CodeWord(eeprom, 0)

\* C11 (as claimed): registry non-zero.  After startup no slot of the
\* registry holds 0.
C11_AsClaimed ==
  pc \notin {"setup", "restore"} => \A i \in Slots : buttonCodes[i] # Zero32

\* C11 (amended): no learned code is 0.  Startup leaves 0 in a slot exactly
\* when the persisted word is 0 or its read failed; after startup a slot never
\* changes to 0, so a slot holds 0 only as long as it holds what startup
\* loaded.
C11_RegistryNonZero ==
  [][ /\ pc = "setup"
           => (buttonCodes'[idx] = Zero32
                 <=> (readLog'[idx].code # "ok" \/ CodeWord(eeprom, idx) = Zero32))
      /\ pc # "setup"
           => \A i \in Slots :
                buttonCodes'[i] # buttonCodes[i] => buttonCodes'[i] # Zero32 ]_vars

\* C11 witness: a session has taken a code into slot 0 after a 0 was
\* presented, while slot 3 still holds the 0 startup loaded
C11_Witness ==
  /\ pc = "learn"
  /\ learnStep = 1
  /\ Len(sess.presented) = 2
  /\ sess.presented[1] = Zero32
  /\ buttonCodes[0] = sess.presented[2]
  /\ buttonCodes[0] # sess.entryCodes[0]
  /\ buttonCodes[3] = Zero32

\* a learned code is written to the store by a successful transaction
CodeWritten == pc = "learn" /\ "Saved code" \in serial' /\ ~WriteFails

\* C12: store round-trip.  After a successful writeEEPROM(slot * 4, code) of
\* a non-zero code, a successful readEEPROM(slot * 4) returns that code, and
\* no byte outside offsets slot * 4 .. slot * 4 + 3 has changed.
C12_RoundTrip ==
  [][ CodeWritten
        => /\ learnStep \in Slots
           /\ rxValue # Zero32
           /\ readEEPROM(eeprom', learnStep * 4, "ok") = rxValue
           /\ \A a \in Cells :
                (a < learnStep * 4 \/ a > learnStep * 4 + 3)
                  => eeprom'[a] = eeprom[a] ]_vars

\* C12 witness: a code whose four bytes differ has replaced another code in
\* the store at slot 1
C12_Witness ==
  /\ pc = "learn"
  /\ learnStep = 2
  /\ sess.failed = {}
  /\ sess.accepted[2] = CodeC
  /\ CodeWord(eeprom, 1) = CodeC
  /\ CodeWord(sess.entryStore, 1) # CodeC

\* a learning session starts in this step
SessionStarts == learningMode' /\ ~learningMode

\* C13: learning entry.  A session starts only from loop(), when the button
\* read pressed and more than 50 ms have passed since lastDebounceTime, and
\* never while a session is active; on entry learnStep is 0 and the session
\* clock is the current time.
C13_LearningEntry ==
  [][ /\ SessionStarts
           => /\ pc = "loop"
              /\ sess.state # "active"
              /\ sess'.button
              /\ ElapsedSinceExceeds(millis, lastDebounceTime, debounceDelay)
              /\ learnStep' = 0
              /\ learningModeStartTime' = millis'
              /\ millis' = millis
      /\ sess.state = "active" => sess'.state # "none"
      /\ (sess'.state = "active" /\ sess.state # "active") => SessionStarts ]_vars

\* C13 witness: a second session has just been entered, after one that had
\* taken a code into slot 0 and advanced the slot index
C13_Witness ==
  /\ serial = {"LEARNING MODE"}
  /\ learningMode
  /\ learnStep = 0
  /\ learningModeStartTime = millis
  /\ lastDebounceTime # Zero32
  /\ buttonCodes[0] = CodeC

\* a pass of the capture loop, as opposed to a frame arriving or time passing
\* while it polls: the clock moves only with an accepted code
TimeoutChecked ==
  /\ pc = "learn"
  /\ env'.rx = env.rx
  /\ (millis' = millis \/ learnStep' # learnStep)

RECURSIVE AcceptedInSession(_)
AcceptedInSession(presented) ==
  IF presented = << >>
    THEN << >>
    ELSE LET before == AcceptedInSession(SubSeq(presented, 1, Len(presented) - 1))
             v      == presented[Len(presented)]
         IN  IF /\ v # Zero32
                /\ Len(before) < NumRelays
                /\ (before = << >> \/ v # before[Len(before)])
               THEN Append(before, v)
               ELSE before

\* C15 (as claimed): intra-session dedup only.  In a session entered with
\* nothing pending, once the loop has dealt with the codes presented, the
\* codes accepted are those presented that are neither 0 nor a repeat of the
\* code accepted before them in this session; the first of them is in slot 0.
C15_AsClaimed ==
  (sess.state # "none" /\ ~sess.pending /\ CaptureSettled)
    => /\ sess.accepted = AcceptedInSession(sess.presented)
       /\ sess.accepted # << >> => buttonCodes[0] = sess.accepted[1]

\* C16: read bus-failure degradation.  A read of setup() whose address
\* transaction fails or whose response is short yields 0 for the code and
\* off for the relay, and the load goes on with the next slot; setup then
\* completes with such a slot's code 0, its relay and output off, and the
\* program enters loop() outside learning mode.
C16_ReadFailure ==
  [][ /\ pc = "setup"
           => /\ readLog'[idx].code # "ok" => buttonCodes'[idx] = Zero32
              /\ readLog'[idx].relay # "ok" => ~relayStates'[idx]
              /\ pc' = IF idx < NumRelays - 1 THEN "setup" ELSE "restore"
              /\ \A i \in Slots \ {idx} :
                   /\ buttonCodes'[i] = buttonCodes[i]
                   /\ relayStates'[i] = relayStates[i]
      /\ pc = "restore"
           => /\ \A i \in Slots :
                   /\ readLog[i].code # "ok" => buttonCodes'[i] = Zero32
                   /\ readLog[i].relay # "ok"
                        => (~relayStates'[i] /\ ~pinLevel'[i])
              /\ pc' = "loop"
              /\ ~learningMode'
              /\ eeprom' = eeprom ]_vars

\* C16 witness: after a startup with a short code read and an unacknowledged
\* relay read, of cells that hold a code and an on relay, a relay is being
\* toggled by its code
C16_Witness ==
  /\ pc = "persist"
  /\ \E i \in Slots :
       /\ readLog[i].code = "short"
       /\ CodeWord(eeprom, i) # Zero32
       /\ buttonCodes[i] = Zero32
  /\ \E j \in Slots :
       /\ j # idx
       /\ readLog[j].relay = "nack"
       /\ RelayByte(eeprom, j) # 0
       /\ ~relayStates[j]
       /\ ~pinLevel[j]

\* C17 (as claimed): session state is cleared on exit.  When a session has
\* ended, the run-time last-accepted code and timestamp are what they were
\* when it was entered.
C17_AsClaimed ==
  (pc = "dispatch" /\ sess.state = "done")
    => /\ lastReceivedCode = sess.entryLastCode
       /\ lastReceivedTime = sess.entryLastTime

\* C18 (as claimed): exclusive session outcome.  A session that has ended is
\* either Complete or TimedOut, never both, and a timed-out session accepted
\* fewer than four codes.
C18_AsClaimed ==
  sess.state = "done"
    => /\ sess.complete # sess.timedOut
       /\ sess.timedOut => Len(sess.accepted) < NumRelays

\* the value handled is 0, or repeats the last accepted code within the
\* quiet interval
RunRejected ==
  \/ rxValue = Zero32
  \/ /\ rxValue = lastReceivedCode
     /\ ~ElapsedSinceExceeds(millis, lastReceivedTime, debounceTime)

\* C19: run-time acceptance bookkeeping.  A rejected value changes neither
\* the last-accepted code nor its timestamp (nor any relay or store byte); an
\* accepted value bound to no slot is recorded with the current time and
\* changes no relay state, output or store byte; an accepted value bound to a
\* slot is recorded, with the time after the write, when its toggle is done.
\* In each case handleRFInput returns with the receiver's flag cleared, and
\* not before.
C19_Bookkeeping ==
  [][ /\ (HandlesFrame /\ RunRejected)
           => /\ UNCHANGED << lastReceivedCode, lastReceivedTime, relayStates,
                              pinLevel, eeprom, millis >>
              /\ ~rxAvailable'
              /\ pc' = "loop"
      /\ (HandlesFrame /\ ~RunRejected /\ BoundSlot = NumRelays)
           => /\ lastReceivedCode' = rxValue
              /\ lastReceivedTime' = millis
              /\ UNCHANGED << relayStates, pinLevel, eeprom, millis >>
              /\ ~rxAvailable'
              /\ pc' = "loop"
      /\ (HandlesFrame /\ ~RunRejected /\ BoundSlot < NumRelays)
           => /\ pc' = "drive"
              /\ rxAvailable'
              /\ UNCHANGED << lastReceivedCode, lastReceivedTime, rxValue >>
      /\ pc = "drive"
           => /\ pc' = "persist"
              /\ rxAvailable'
              /\ UNCHANGED << lastReceivedCode, lastReceivedTime, rxValue >>
      /\ pc = "persist"
           => /\ lastReceivedCode' = rxValue
              /\ lastReceivedTime' = millis'
              /\ ~rxAvailable'
              /\ pc' = "loop" ]_vars

\* C19 witness: a code bound to no slot has just been accepted and recorded
\* with the current time
C19_Witness ==
  /\ pc = "loop"
  /\ serial = {"Received"}
  /\ ~rxAvailable
  /\ \A i \in Slots : buttonCodes[i] # rxValue
  /\ lastReceivedCode = rxValue
  /\ lastReceivedTime = millis
  /\ quietFor = 0
  /\ millis # Zero32

\* C20: mirror consistency.  At the start of every pass of loop(), for each
\* slot the output level equals the in-memory relay state; and as long as no
\* bus transaction has failed, the relay is on exactly when its persisted
\* byte is non-zero, and the in-memory code is the word persisted for it.
C20_MirrorConsistency ==
  pc = "loop"
    => \A i \in Slots :
         /\ pinLevel[i] = relayStates[i]
         /\ ~env.failed
              => /\ relayStates[i] = (RelayByte(eeprom, i) # 0)
                 /\ buttonCodes[i] = CodeWord(eeprom, i)

\* C20 witness: loop() starts a pass after a session has changed the code of
\* slot 0 and a relay has been toggled since, with no bus failure
C20_Witness ==
  /\ pc = "loop"
  /\ ~env.failed
  /\ sess.state = "done"
  /\ CodeWord(eeprom, 0) # CodeWord(sess.entryStore, 0)
  /\ \E i \in Slots : RelayByte(eeprom, i) # RelayByte(sess.entryStore, i)

====
